---- MODULE Spec2Model ----
(***************************************************************************)
(* Model of two components of vscode-azurearmtools:                        *)
(*   - ParametersPositionContext (getReferenceSiteInfo, getReferencesCore) *)
(*   - SnippetManager (getMap, getSnippets, getSnippetsAsCompletionItems,  *)
(*     convertSnippet, doesSnippetSupportContext)                          *)
(* Strings whose characters the code inspects (snippet names, prefixes,    *)
(* labels, body lines) are sequences of characters; strings that are only  *)
(* concatenated are TLA+ strings. A character is a one-character string,   *)
(* or its code point ("U+00A0") where TLA+ cannot write it.                *)
(***************************************************************************)
EXTENDS Naturals, Sequences, FiniteSets, Bags, TLC

VARIABLES
    \* ---- ParametersPositionContext ----
    deploymentParameters,    \* the document: sequence of parameter value definitions
    associatedTemplate,      \* Undefined or Some(template)
    documentCharacterIndex,  \* Undefined before construction, then Some(offset)
    siteInfo,                \* <<>> before a call, else <<result of getReferenceSiteInfo>>
    references,              \* <<>> before a call, else <<result of getReferencesCore>>
    \* ---- SnippetManager ----
    snippetMap,              \* CachedPromise: 0 = nothing cached, n = the promise of load n
    loads,                   \* every load started so far (the promises created)
    awaiting,                \* bag of the calls suspended in "await this.getMap()"
    completed,               \* bag holding the call that the last step completed, with its result
    callCount,               \* number of calls made so far
    warnings                 \* messages passed to window.showWarningMessage

posVars == <<deploymentParameters, associatedTemplate, documentCharacterIndex,
             siteInfo, references>>
snipVars == <<snippetMap, loads, awaiting, completed, callCount, warnings>>
vars == <<deploymentParameters, associatedTemplate, documentCharacterIndex,
          siteInfo, references, snippetMap, loads, awaiting, completed, callCount, warnings>>

\* undefined / a defined value
Undefined == <<>>
Some(x) == <<x>>

\* ------------------------------------------------------------------------
\* Bounds
\* ------------------------------------------------------------------------
\* the parameter file is DocLength characters long (offsets 0..DocLength)
DocLength == 9
\* at most this many parameter value definitions in the parameter file
MaxParamValues == 2
\* every line of the parameter file but the last has LineWidth characters,
\* its line break included
LineWidth == 5

\* ------------------------------------------------------------------------
\* Spans (language.Span)
\* ------------------------------------------------------------------------
Span(startIndex, length) == [startIndex |-> startIndex, length |-> length]
afterEndIndex(span) == span.startIndex + span.length

\* language.Span.contains(index, containsBehavior)
\*   strict:   the half-open interval [start, start+length)
\*   extended: both edges count, start <= index <= start+length
SpanContains(span, index, containsBehavior) ==
    /\ span.startIndex <= index
    /\ IF containsBehavior = "extended"
       THEN index <= afterEndIndex(span)
       ELSE index < afterEndIndex(span)

\* ------------------------------------------------------------------------
\* The parameter file and its associated template
\* ------------------------------------------------------------------------
ParameterNames == {"a", "b"}

\* A JSON string token used as a name: the raw span covers the quotes, the
\* unquoted span is the content between them.
NameValue(startIndex, unquotedValue) ==
    [ span          |-> Span(startIndex, Len(unquotedValue) + 2),
      unquotedSpan  |-> Span(startIndex + 1, Len(unquotedValue)),
      unquotedValue |-> unquotedValue ]

ParameterValueDefinition(startIndex, name) == [nameValue |-> NameValue(startIndex, name)]

AllParameterValueDefinitions ==
    { ParameterValueDefinition(s, n) : s \in 0..(DocLength - 3), n \in ParameterNames }

\* every sequence of at most MaxParamValues definitions lying inside the document
AnyLayoutDocuments ==
    UNION { [1..n -> AllParameterValueDefinitions] : n \in 0..MaxParamValues }

\* Documents the JSON parser produces: names are distinct tokens in source
\* order, and a colon and a value (two characters at least) separate one
\* name from the next, so no offset touches two names.
IsParsedLayout(pvds) ==
    \A i \in 1..Len(pvds) : \A j \in 1..Len(pvds) :
        i < j => afterEndIndex(pvds[i].nameValue.span) + 2 <= pvds[j].nameValue.span.startIndex

ParsedDocuments == { d \in AnyLayoutDocuments : IsParsedLayout(d) }

\* the template's top-level scope: the names of its parameter definitions
Templates == { Undefined } \cup { Some([topLevelScope |-> s]) : s \in SUBSET ParameterNames }

\* TemplateScope.getParameterDefinition(name)
getParameterDefinition(scope, unquotedName) ==
    IF unquotedName \in scope
    THEN Some([definitionKind |-> "Parameter", name |-> unquotedName])
    ELSE Undefined

\* ------------------------------------------------------------------------
\* ParametersPositionContext.getReferenceSiteInfo
\* ------------------------------------------------------------------------
ReferenceSite(paramValue, paramDef) ==
    [ referenceKind         |-> "reference",
      unquotedReferenceSpan |-> paramValue.nameValue.unquotedSpan,
      referenceDocument     |-> "deploymentParameters",
      definition            |-> paramDef,
      definitionDocument    |-> "associatedTemplate" ]

\* the for loop over parameterValueDefinitions, from definition i on
RECURSIVE scanParameterValues(_, _, _, _)
scanParameterValues(pvds, i, template, index) ==
    IF i > Len(pvds) THEN Undefined
    ELSE IF SpanContains(pvds[i].nameValue.span, index, "extended")
         THEN LET paramDef == getParameterDefinition(template.topLevelScope,
                                                     pvds[i].nameValue.unquotedValue)
              IN  IF paramDef # Undefined
                  THEN Some(ReferenceSite(pvds[i], paramDef[1]))
                  ELSE Undefined   \* break
         ELSE scanParameterValues(pvds, i + 1, template, index)

\* mutant: the loop has no break, an unresolved name does not end the scan
RECURSIVE scanWithoutBreak(_, _, _, _)
scanWithoutBreak(pvds, i, template, index) ==
    IF i > Len(pvds) THEN Undefined
    ELSE LET paramDef == getParameterDefinition(template.topLevelScope,
                                                pvds[i].nameValue.unquotedValue)
         IN  IF /\ SpanContains(pvds[i].nameValue.span, index, "extended")
                /\ paramDef # Undefined
             THEN Some(ReferenceSite(pvds[i], paramDef[1]))
             ELSE scanWithoutBreak(pvds, i + 1, template, index)

\* mutant: strict containment, the offset just after the closing quote is outside
RECURSIVE scanStrict(_, _, _, _)
scanStrict(pvds, i, template, index) ==
    IF i > Len(pvds) THEN Undefined
    ELSE IF SpanContains(pvds[i].nameValue.span, index, "strict")
         THEN LET paramDef == getParameterDefinition(template.topLevelScope,
                                                     pvds[i].nameValue.unquotedValue)
              IN  IF paramDef # Undefined
                  THEN Some(ReferenceSite(pvds[i], paramDef[1]))
                  ELSE Undefined
         ELSE scanStrict(pvds, i + 1, template, index)

\* mutant: the containment test is missing, the first resolvable name wins
RECURSIVE scanIgnoringCursor(_, _, _, _)
scanIgnoringCursor(pvds, i, template, index) ==
    IF i > Len(pvds) THEN Undefined
    ELSE LET paramDef == getParameterDefinition(template.topLevelScope,
                                                pvds[i].nameValue.unquotedValue)
         IN  IF paramDef # Undefined
             THEN Some(ReferenceSite(pvds[i], paramDef[1]))
             ELSE scanIgnoringCursor(pvds, i + 1, template, index)

getReferenceSiteInfo_noBreak(pvds, template, index) ==
    IF template = Undefined THEN Undefined
    ELSE scanWithoutBreak(pvds, 1, template[1], index)

getReferenceSiteInfo_strict(pvds, template, index) ==
    IF template = Undefined THEN Undefined
    ELSE scanStrict(pvds, 1, template[1], index)

getReferenceSiteInfo_anywhere(pvds, template, index) ==
    IF template = Undefined THEN Undefined
    ELSE scanIgnoringCursor(pvds, 1, template[1], index)

getReferenceSiteInfo(pvds, template, index) ==
    IF template = Undefined THEN Undefined
    ELSE scanParameterValues(pvds, 1, template[1], index)

\* ------------------------------------------------------------------------
\* DeploymentParameters.findReferencesToDefinition and getReferencesCore
\* ------------------------------------------------------------------------
\* the unquoted spans of the names in the document that refer to the definition
findReferencesToDefinition(pvds, definition) ==
    [ kind  |-> definition.definitionKind,
      spans |-> { pvds[i].nameValue.unquotedSpan :
                    i \in { k \in 1..Len(pvds) :
                              pvds[k].nameValue.unquotedValue = definition.name } } ]

\* mutant: an empty list where the position supports no references
getReferencesCore_emptyList(pvds, template, index) ==
    LET refInfo == getReferenceSiteInfo(pvds, template, index)
    IN  IF refInfo # Undefined
        THEN Some(findReferencesToDefinition(pvds, refInfo[1].definition))
        ELSE Some([kind |-> "Parameter", spans |-> {}])

getReferencesCore(pvds, template, index) ==
    LET refInfo == getReferenceSiteInfo(pvds, template, index)
    IN  IF refInfo # Undefined
        THEN Some(findReferencesToDefinition(pvds, refInfo[1].definition))
        ELSE Undefined

\* ------------------------------------------------------------------------
\* Actions of a position context
\* ------------------------------------------------------------------------
\* the positions of the document: line index and column index, both from 0
DocumentLines == 0..(DocLength \div LineWidth)
ColumnsOf(line) ==
    { column \in 0..(LineWidth - 1) : line * LineWidth + column <= DocLength }

\* DeploymentDocument.getDocumentCharacterIndex: the lengths of the lines
\* before the line, plus the column
getDocumentCharacterIndex(line, column) == line * LineWidth + column

\* PositionContext.initFromDocumentCharacterIndex: the offset is kept as given
initFromDocumentCharacterIndex(index) == Some(index)

\* PositionContext.initFromDocumentLineAndColumnIndices: the offset of the position
initFromDocumentLineAndColumnIndices(line, column) ==
    Some(getDocumentCharacterIndex(line, column))

\* ParametersPositionContext.fromDocumentLineAndColumnIndices
FromDocumentLineAndColumnIndices ==
    /\ documentCharacterIndex = Undefined
    /\ \E line \in DocumentLines : \E column \in ColumnsOf(line) :
          documentCharacterIndex' = initFromDocumentLineAndColumnIndices(line, column)
    /\ UNCHANGED <<deploymentParameters, associatedTemplate, siteInfo, references>>
    /\ UNCHANGED snipVars

\* ParametersPositionContext.fromDocumentCharacterIndex
FromDocumentCharacterIndex ==
    /\ documentCharacterIndex = Undefined
    /\ \E index \in 0..DocLength :
          documentCharacterIndex' = initFromDocumentCharacterIndex(index)
    /\ UNCHANGED <<deploymentParameters, associatedTemplate, siteInfo, references>>
    /\ UNCHANGED snipVars

GetReferenceSiteInfo ==
    /\ documentCharacterIndex # Undefined
    /\ siteInfo = <<>>
    /\ siteInfo' = <<getReferenceSiteInfo(deploymentParameters, associatedTemplate,
                                          documentCharacterIndex[1])>>
    /\ UNCHANGED <<deploymentParameters, associatedTemplate, documentCharacterIndex,
                   references>>
    /\ UNCHANGED snipVars

GetReferences ==
    /\ documentCharacterIndex # Undefined
    /\ references = <<>>
    /\ references' = <<getReferencesCore(deploymentParameters, associatedTemplate,
                                         documentCharacterIndex[1])>>
    /\ UNCHANGED <<deploymentParameters, associatedTemplate, documentCharacterIndex,
                   siteInfo>>
    /\ UNCHANGED snipVars

SnippetsIdle ==
    /\ snippetMap = 0
    /\ loads = <<>>
    /\ awaiting = EmptyBag
    /\ completed = EmptyBag
    /\ callCount = 0
    /\ warnings = {}

InitPosition(documents) ==
    /\ deploymentParameters \in documents
    /\ associatedTemplate \in Templates
    /\ documentCharacterIndex = Undefined
    /\ siteInfo = <<>>
    /\ references = <<>>
    /\ SnippetsIdle

NextPosition ==
    \/ FromDocumentLineAndColumnIndices
    \/ FromDocumentCharacterIndex
    \/ GetReferenceSiteInfo
    \/ GetReferences

\* position contexts over documents as the parser builds them
SpecParsed == InitPosition(ParsedDocuments) /\ [][NextPosition]_vars
\* position contexts over any sequence of name spans, overlapping ones included
SpecAnyLayout == InitPosition(AnyLayoutDocuments) /\ [][NextPosition]_vars

\* ------------------------------------------------------------------------
\* Snippet source file
\* ------------------------------------------------------------------------
\* at most this many getSnippets / getSnippetsAsCompletionItems calls
MaxCalls == 2
\* at most this many top-level keys in the snippet file
MaxSnippets == 2

DQ == "\""

\* String.prototype.startsWith for a one-character search string
startsWith(str, ch) == Len(str) > 0 /\ str[1] = ch

\* KnownSnippetContexts
KnownSnippetContexts == [empty |-> "empty", resources |-> "resources",
                         parameterValues |-> "parameterValues"]

\* body lines of the snippet file
LineApiVersion == <<DQ, "a", "p", "i", "V", "e", "r", "s", "i", "o", "n", DQ, " ", "\n", ":", "1">>
LineName       == <<DQ, "n", DQ, ":", "1">>
LineUnquoted   == <<"a", "p", "i", "V", "e", "r", "s", "i", "o", "n", ":", "1">>

SnippetNames == { <<"a">>, <<"b">>, <<"$", "m">> }

PlainPrefix   == Some(<<"v">>)
QuotedPrefix  == Some(<<DQ, "p", DQ>>)
MarkerBody    == Some(<<LineName, LineApiVersion>>)
NoMarkerBody  == Some(<<LineUnquoted>>)
ResourcesTag  == Some(KnownSnippetContexts.resources)
ParamValueTag == Some(KnownSnippetContexts.parameterValues)

SnippetDefinition(prefix, body, context) ==
    [prefix |-> prefix, body |-> body, description |-> "VNet", context |-> context]

\* ISnippetDefinitionFromFile: a field missing from the file reads as undefined.
\* The records a snippet key may carry: consistent ones, each authoring
\* inconsistency, a record without context and a record lacking its prefix.
\* Each key draws from its own half of them, so that two keys can carry the
\* same tag or different ones.
SnippetDefinitionsFromFile ==
    [ first  |-> { SnippetDefinition(PlainPrefix,  MarkerBody,   ResourcesTag),
                   SnippetDefinition(PlainPrefix,  MarkerBody,   ParamValueTag),
                   SnippetDefinition(PlainPrefix,  NoMarkerBody, Undefined) },
      second |-> { SnippetDefinition(QuotedPrefix, NoMarkerBody, ParamValueTag),
                   SnippetDefinition(QuotedPrefix, NoMarkerBody, ResourcesTag),
                   SnippetDefinition(Undefined,    MarkerBody,   ResourcesTag) } ]

\* a metadata key such as "$schema" carries no snippet definition
MetadataDefinition == [prefix |-> Undefined, body |-> Undefined,
                       description |-> "", context |-> Undefined]

DefinitionsFor(name) ==
    IF startsWith(name, "$") THEN { MetadataDefinition }
    ELSE IF name = <<"a">> THEN SnippetDefinitionsFromFile.first
    ELSE SnippetDefinitionsFromFile.second

\* the snippet properties of a file: n of them in source order, keys distinct
SnippetProperties(n) ==
    { p \in [1..n -> UNION { [name : {name}, definition : DefinitionsFor(name)]
                             : name \in { k \in SnippetNames : ~startsWith(k, "$") } }] :
        \A i \in 1..n : \A j \in 1..n : i # j => p[i].name # p[j].name }

\* the metadata properties, which a file has at its top
MetadataProperties ==
    { [name |-> name, definition |-> MetadataDefinition]
      : name \in { k \in SnippetNames : startsWith(k, "$") } }

\* the parsed JSON object: its own properties in source order, keys distinct
PropertyLists ==
    UNION { SnippetProperties(n)
            \cup { <<m>> \o p : m \in MetadataProperties,
                                p \in (IF n = 0 THEN {} ELSE SnippetProperties(n - 1)) }
            : n \in 0..MaxSnippets }

\* What reading the file gives: an I/O error, text that is not JSON, or JSON
FileOutcomes ==
    { [readOk |-> FALSE, parseOk |-> FALSE, properties |-> <<>>],
      [readOk |-> TRUE,  parseOk |-> FALSE, properties |-> <<>>] }
    \cup { [readOk |-> TRUE, parseOk |-> TRUE, properties |-> p] : p \in PropertyLists }

\* ------------------------------------------------------------------------
\* convertSnippet
\* ------------------------------------------------------------------------
\* \s of a JavaScript regular expression: the white space and line terminator
\* characters
isWhitespace(ch) ==
    ch \in { " ", "\t", "\n", "\r", "\f", "U+000B", "U+00A0", "U+1680",
             "U+2000", "U+2001", "U+2002", "U+2003", "U+2004", "U+2005", "U+2006",
             "U+2007", "U+2008", "U+2009", "U+200A", "U+2028", "U+2029", "U+202F",
             "U+205F", "U+3000", "U+FEFF" }

ApiVersionToken == <<DQ, "a", "p", "i", "V", "e", "r", "s", "i", "o", "n", DQ>>

\* line.match(/"apiVersion"\s*:/): the quoted token, any whitespace, a colon
matchesApiVersion(line) ==
    \E i \in 1..Len(line) : \E k \in 0..Len(line) :
        /\ i + Len(ApiVersionToken) + k <= Len(line)
        /\ SubSeq(line, i, i + Len(ApiVersionToken) - 1) = ApiVersionToken
        /\ \A j \in 0..(k - 1) : isWhitespace(line[i + Len(ApiVersionToken) + j])
        /\ line[i + Len(ApiVersionToken) + k] = ":"

\* Array.prototype.join
RECURSIVE join(_, _)
join(lines, separator) ==
    IF Len(lines) = 0 THEN <<>>
    ELSE IF Len(lines) = 1 THEN lines[1]
    ELSE lines[1] \o separator \o join(Tail(lines), separator)

\* mutant: any context matches (a wildcard)
doesSnippetSupportContext_any(snippet, context) == TRUE

\* snippet.context === context
doesSnippetSupportContext(snippet, context) == snippet.context = Some(context)

Warning(snippetName, kind) == [snippetName |-> snippetName, kind |-> kind]

NoSnippet == [name |-> <<>>, prefix |-> Undefined, description |-> "",
              insertText |-> <<>>, context |-> Undefined]

\* mutant: an inconsistent record fails the conversion (assert.fail)
convertSnippet_asserting(snippetName, snippetFromFile) ==
    LET context == snippetFromFile.context
        snippet == [ name        |-> snippetName,
                     prefix      |-> snippetFromFile.prefix,
                     description |-> snippetFromFile.description,
                     insertText  |-> IF snippetFromFile.body = Undefined THEN <<>>
                                     ELSE join(snippetFromFile.body[1], <<"\n">>),
                     context     |-> context ]
        looksLikeResource == /\ snippetFromFile.body # Undefined
                             /\ \E n \in 1..Len(snippetFromFile.body[1]) :
                                    matchesApiVersion(snippetFromFile.body[1][n])
        isResource == doesSnippetSupportContext(snippet, KnownSnippetContexts.resources)
    IN  IF \/ context = Undefined
           \/ snippetFromFile.body = Undefined
           \/ isResource # looksLikeResource
        THEN [threw |-> TRUE, snippet |-> NoSnippet, warnings |-> {}]
        ELSE [threw |-> FALSE, snippet |-> snippet, warnings |-> {}]

\* The result of convertSnippet: the snippet, or an exception (body.join on a
\* record without body), and the warnings shown up to that point.
convertSnippet(snippetName, snippetFromFile) ==
    LET context == snippetFromFile.context
        noContext == IF context = Undefined
                     THEN { Warning(snippetName, "noContext") } ELSE {}
    IN  IF snippetFromFile.body = Undefined
        THEN [threw |-> TRUE, snippet |-> NoSnippet, warnings |-> noContext]
        ELSE
          LET body == join(snippetFromFile.body[1], <<"\n">>)
              snippet == [ name        |-> snippetName,
                           prefix      |-> snippetFromFile.prefix,
                           description |-> snippetFromFile.description,
                           insertText  |-> body,
                           context     |-> context ]
              looksLikeResource == \E n \in 1..Len(snippetFromFile.body[1]) :
                                       matchesApiVersion(snippetFromFile.body[1][n])
              isResource == doesSnippetSupportContext(snippet, KnownSnippetContexts.resources)
              mismatch == IF isResource
                          THEN IF ~looksLikeResource
                               THEN { Warning(snippetName, "notLikeResource") } ELSE {}
                          ELSE IF looksLikeResource
                               THEN { Warning(snippetName, "looksLikeResource") } ELSE {}
          IN  [threw |-> FALSE, snippet |-> snippet, warnings |-> noContext \cup mismatch]

\* ------------------------------------------------------------------------
\* The loader passed to getOrCachePromise (the body of getMap's callback)
\* ------------------------------------------------------------------------
\* the for loop over the names not starting with '$': map.set(name, convertSnippet(...))
RECURSIVE buildMap(_, _, _, _)
buildMap(properties, i, map, shown) ==
    IF i > Len(properties) THEN [threw |-> FALSE, map |-> map, warnings |-> shown]
    ELSE IF startsWith(properties[i].name, "$")
         THEN buildMap(properties, i + 1, map, shown)
         ELSE LET converted == convertSnippet(properties[i].name, properties[i].definition)
              IN  IF converted.threw
                  THEN [threw |-> TRUE, map |-> <<>>,
                        warnings |-> shown \cup converted.warnings]
                  ELSE buildMap(properties, i + 1,
                                Append(map, [key |-> properties[i].name,
                                             value |-> converted.snippet]),
                                shown \cup converted.warnings)

\* mutant: a failing load is swallowed and yields an empty map
loadSnippetMap_swallowing(file) ==
    IF ~file.readOk \/ ~file.parseOk
    THEN [error |-> "none", map |-> <<>>, warnings |-> {}]
    ELSE LET built == buildMap(file.properties, 1, <<>>, {})
         IN  [error |-> "none", map |-> built.map, warnings |-> built.warnings]

\* The loader's outcome: the map, or the error it threw (in readUtf8FileWithBom,
\* in JSON.parse or in convertSnippet), and the warnings shown on the way.
loadSnippetMap(file) ==
    IF ~file.readOk THEN [error |-> "read", map |-> <<>>, warnings |-> {}]
    ELSE IF ~file.parseOk THEN [error |-> "parse", map |-> <<>>, warnings |-> {}]
    ELSE LET built == buildMap(file.properties, 1, <<>>, {})
         IN  [error |-> IF built.threw THEN "convert" ELSE "none",
              map |-> built.map, warnings |-> built.warnings]

\* ------------------------------------------------------------------------
\* CachedPromise and getMap
\* ------------------------------------------------------------------------
\* CachedPromise.getOrCachePromise creates the promise when none is cached
mustCreatePromise(cached) == cached = 0

\* CachedPromise: a rejected promise is dropped from the cache
cacheAfterSettle(cached, promise, ok) ==
    IF ~ok /\ cached = promise THEN 0 ELSE cached

\* mutant: every call runs the loader, the cache is not consulted
getMap_uncached(cached, nLoads) == [created |-> TRUE, promise |-> nLoads + 1]

\* getMap: the promise the caller awaits, and whether the loader was started for it
getMap(cached, nLoads) ==
    IF mustCreatePromise(cached)
    THEN [created |-> TRUE, promise |-> nLoads + 1]
    ELSE [created |-> FALSE, promise |-> cached]

NoSource == [readOk |-> FALSE, parseOk |-> FALSE, properties |-> <<>>]

\* a load whose file read has not completed
PendingLoad == [status |-> "pending", map |-> <<>>, error |-> "none", source |-> NoSource]

\* ------------------------------------------------------------------------
\* getSnippets and getSnippetsAsCompletionItems, given the settled load
\* ------------------------------------------------------------------------
mapValues(map) == [i \in 1..Len(map) |-> map[i].value]

\* getSnippets: the rejection of getMap propagates, else the filtered values
getSnippets(load, context) ==
    IF load.status = "rejected"
    THEN [status |-> "threw", value |-> <<>>]
    ELSE [status |-> "returned",
          value  |-> SelectSeq(mapValues(load.map),
                               LAMBDA s : doesSnippetSupportContext(s, context))]

extensionName == "Azure Resource Manager Tools"

\* a template literal renders undefined as the text "undefined"
templateText(str) ==
    IF str = Undefined THEN <<"u", "n", "d", "e", "f", "i", "n", "e", "d">> ELSE str[1]

\* new Completion.Item({...}) for one snippet
CompletionItem(name, snippet, label, span) ==
    [ label       |-> <<"{">> \o label \o <<"}">>,
      snippetName |-> name,
      detail      |-> snippet.description \o " (" \o extensionName \o ")",
      insertText  |-> snippet.insertText,
      span        |-> span,
      kind        |-> "Snippet",
      priority    |-> "low" ]

\* the for loop over map.entries(); label.startsWith throws on a snippet
\* without prefix when addDoubleQuotes is set
RECURSIVE buildItems(_, _, _, _, _, _)
buildItems(map, i, context, span, addDoubleQuotes, items) ==
    IF i > Len(map) THEN [threw |-> FALSE, value |-> items]
    ELSE LET snippet == map[i].value
         IN  IF ~doesSnippetSupportContext(snippet, context)
             THEN buildItems(map, i + 1, context, span, addDoubleQuotes, items)
             ELSE IF addDoubleQuotes /\ snippet.prefix = Undefined
             THEN [threw |-> TRUE, value |-> <<>>]
             ELSE LET prefix == templateText(snippet.prefix)
                      label  == IF addDoubleQuotes /\ ~startsWith(prefix, DQ)
                                THEN <<DQ>> \o prefix \o <<DQ>>
                                ELSE prefix
                  IN  buildItems(map, i + 1, context, span, addDoubleQuotes,
                                 Append(items, CompletionItem(map[i].key, snippet, label, span)))

\* the callback given to callWithTelemetryAndErrorHandling
completionCallback(load, context, span, addDoubleQuotes) ==
    IF load.status = "rejected"
    THEN [threw |-> TRUE, value |-> <<>>]
    ELSE buildItems(load.map, 1, context, span, addDoubleQuotes, <<>>)

\* callWithTelemetryAndErrorHandling: the callback's value, undefined when it threw
callWithTelemetryAndErrorHandling(callback) ==
    IF callback.threw THEN Undefined ELSE Some(callback.value)

\* mutant: the callback runs without the error-handling wrapper
getSnippetsAsCompletionItems_unwrapped(load, context, span, addDoubleQuotes) ==
    LET callback == completionCallback(load, context, span, addDoubleQuotes)
    IN  IF callback.threw
        THEN [status |-> "threw", value |-> <<>>]
        ELSE [status |-> "returned", value |-> callback.value]

\* getSnippetsAsCompletionItems: callWithTelemetryAndErrorHandling(...) ?? []
getSnippetsAsCompletionItems(load, context, span, addDoubleQuotes) ==
    LET result == callWithTelemetryAndErrorHandling(
                      completionCallback(load, context, span, addDoubleQuotes))
    IN  [status |-> "returned",
         value  |-> IF result = Undefined THEN <<>> ELSE result[1]]

\* ------------------------------------------------------------------------
\* Actions of a snippet manager
\* ------------------------------------------------------------------------
CallContexts == { KnownSnippetContexts.resources, KnownSnippetContexts.parameterValues,
                  "doesNotExist" }
\* the contexts completion is asked for
CompletionContexts == { KnownSnippetContexts.resources, KnownSnippetContexts.parameterValues }
CompletionSpans == { Span(4, 2) }
NoSpan == Span(0, 0)

\* the loader's result for each thing the file read can give
LoadResults == [file \in FileOutcomes |-> loadSnippetMap(file)]

\* the continuation of a call once the promise it awaits has settled
Complete(call, load) ==
    LET r == IF call.kind = "getSnippets"
             THEN getSnippets(load, call.context)
             ELSE getSnippetsAsCompletionItems(load, call.context, call.span,
                                               call.addDoubleQuotes)
    IN  [call EXCEPT !.status = r.status, !.value = r.value]

\* A call enters getMap: it starts the load when getOrCachePromise has nothing
\* cached, and suspends in "await this.getMap()", on a settled promise too.
\* The state after the call.
enterGetMap(kind, context, span, addDoubleQuotes) ==
    LET m    == getMap(snippetMap, Len(loads))
        call == [ kind |-> kind, context |-> context, span |-> span,
                  addDoubleQuotes |-> addDoubleQuotes,
                  load |-> m.promise, createdLoad |-> m.created,
                  loadsBefore |-> Len(loads),
                  inFlightAtCall |-> \E n \in 1..Len(loads) : loads[n].status = "pending",
                  status |-> "awaiting", value |-> <<>> ]
    IN  [ loads      |-> IF m.created THEN Append(loads, PendingLoad) ELSE loads,
          snippetMap |-> m.promise,
          awaiting   |-> awaiting (+) SetToBag({call}) ]

CallGetSnippets ==
    /\ callCount < MaxCalls
    /\ callCount' = callCount + 1
    /\ \E context \in CallContexts :
          LET after == enterGetMap("getSnippets", context, NoSpan, FALSE)
          IN  /\ loads' = after.loads
              /\ snippetMap' = after.snippetMap
              /\ awaiting' = after.awaiting
    /\ completed' = EmptyBag
    /\ UNCHANGED warnings
    /\ UNCHANGED posVars

CallGetSnippetsAsCompletionItems ==
    /\ callCount < MaxCalls
    /\ callCount' = callCount + 1
    /\ \E context \in CompletionContexts : \E span \in CompletionSpans :
          \E addDoubleQuotes \in BOOLEAN :
              LET after == enterGetMap("getSnippetsAsCompletionItems", context, span,
                                       addDoubleQuotes)
              IN  /\ loads' = after.loads
                  /\ snippetMap' = after.snippetMap
                  /\ awaiting' = after.awaiting
    /\ completed' = EmptyBag
    /\ UNCHANGED warnings
    /\ UNCHANGED posVars

\* The file read of a pending load completes: the loader parses and converts
\* in one synchronous step and the promise settles. The calls awaiting it
\* stay suspended until their continuations run. A rejected load keeps no
\* source.
FinishLoad ==
    /\ \E n \in 1..Len(loads) : \E file \in FileOutcomes :
        /\ loads[n].status = "pending"
        /\ LET result  == LoadResults[file]
               ok      == result.error = "none"
               settled == [ status |-> IF ok THEN "resolved" ELSE "rejected",
                            map    |-> result.map,
                            error  |-> result.error,
                            source |-> IF ok THEN file ELSE NoSource ]
           IN  /\ loads' = [loads EXCEPT ![n] = settled]
               /\ snippetMap' = cacheAfterSettle(snippetMap, n, ok)
               /\ warnings' = warnings \cup result.warnings
    /\ completed' = EmptyBag
    /\ UNCHANGED <<awaiting, callCount>>
    /\ UNCHANGED posVars

\* The continuation of one suspended call runs, its promise having settled:
\* the rest of getSnippets.
ResumeGetSnippets ==
    /\ \E call \in BagToSet(awaiting) :
          /\ call.kind = "getSnippets"
          /\ loads[call.load].status # "pending"
          /\ awaiting' = awaiting (-) SetToBag({call})
          /\ completed' = SetToBag({ Complete(call, loads[call.load]) })
    /\ UNCHANGED <<snippetMap, loads, callCount, warnings>>
    /\ UNCHANGED posVars

\* The same for getSnippetsAsCompletionItems: the rest of the callback, the
\* error-handling wrapper and "?? []".
ResumeGetSnippetsAsCompletionItems ==
    /\ \E call \in BagToSet(awaiting) :
          /\ call.kind = "getSnippetsAsCompletionItems"
          /\ loads[call.load].status # "pending"
          /\ awaiting' = awaiting (-) SetToBag({call})
          /\ completed' = SetToBag({ Complete(call, loads[call.load]) })
    /\ UNCHANGED <<snippetMap, loads, callCount, warnings>>
    /\ UNCHANGED posVars

PositionIdle ==
    /\ deploymentParameters = <<>>
    /\ associatedTemplate = Undefined
    /\ documentCharacterIndex = Undefined
    /\ siteInfo = <<>>
    /\ references = <<>>

InitSnippets ==
    /\ SnippetsIdle
    /\ PositionIdle

NextSnippets ==
    \/ CallGetSnippets
    \/ CallGetSnippetsAsCompletionItems
    \/ FinishLoad
    \/ ResumeGetSnippets
    \/ ResumeGetSnippetsAsCompletionItems

\* one SnippetManager serving calls, the file read completing at any time
SpecSnippets == InitSnippets /\ [][NextSnippets]_vars

\* ========================================================================
\* Properties of ParametersPositionContext
\* ========================================================================
cursor == documentCharacterIndex[1]

nameContainsCursor(i) ==
    /\ deploymentParameters[i].nameValue.span.startIndex <= cursor
    /\ cursor <= deploymentParameters[i].nameValue.span.startIndex
                 + deploymentParameters[i].nameValue.span.length

templateDefines(i) ==
    deploymentParameters[i].nameValue.unquotedValue \in associatedTemplate[1].topLevelScope

firstContaining(i) ==
    /\ nameContainsCursor(i)
    /\ \A j \in 1..(i - 1) : ~nameContainsCursor(j)

\* C1: with a template linked and the cursor inside or at either boundary of a
\* parameter name's raw span, getReferenceSiteInfo returns a reference site
\* exactly if the template's top-level scope defines that name, and the site
\* then carries the name's unquoted span and that definition.
C1_SiteIffTemplateDefinesName ==
    (siteInfo # <<>> /\ associatedTemplate # Undefined) =>
        \A i \in 1..Len(deploymentParameters) :
            nameContainsCursor(i) =>
                /\ (siteInfo[1] # Undefined) <=> templateDefines(i)
                /\ siteInfo[1] # Undefined =>
                      /\ siteInfo[1][1].referenceKind = "reference"
                      /\ siteInfo[1][1].unquotedReferenceSpan =
                             deploymentParameters[i].nameValue.unquotedSpan
                      /\ siteInfo[1][1].definition.name =
                             deploymentParameters[i].nameValue.unquotedValue

\* the cursor sits just after the closing quote of a name the template defines,
\* and a site was returned
C1_Witness ==
    /\ siteInfo # <<>>
    /\ associatedTemplate # Undefined
    /\ \E i \in 1..Len(deploymentParameters) :
          /\ cursor = afterEndIndex(deploymentParameters[i].nameValue.span)
          /\ templateDefines(i)
    /\ siteInfo[1] # Undefined

\* C2: with the cursor outside every parameter name's raw span (not inside, not
\* on a boundary), getReferenceSiteInfo returns absent whatever the template
\* defines.
C2_AbsentOutsideEveryName ==
    (siteInfo # <<>> /\ \A i \in 1..Len(deploymentParameters) : ~nameContainsCursor(i))
        => siteInfo[1] = Undefined

\* the cursor is outside both names of a document whose names the template defines
C2_Witness ==
    /\ siteInfo # <<>>
    /\ Len(deploymentParameters) = 2
    /\ associatedTemplate # Undefined
    /\ \A i \in 1..Len(deploymentParameters) : templateDefines(i) /\ ~nameContainsCursor(i)
    /\ siteInfo[1] = Undefined

\* C6: getReferences returns absent exactly when getReferenceSiteInfo returns
\* absent at the same position; otherwise it returns the list that
\* findReferencesToDefinition gives for the site's definition, and the list
\* holds the site's own reference span.
C6_ReferencesFollowSite ==
    (siteInfo # <<>> /\ references # <<>>) =>
        /\ (references[1] = Undefined) <=> (siteInfo[1] = Undefined)
        /\ siteInfo[1] # Undefined =>
              /\ references[1][1] =
                     findReferencesToDefinition(deploymentParameters, siteInfo[1][1].definition)
              /\ siteInfo[1][1].unquotedReferenceSpan \in references[1][1].spans

\* both queries ran on a name used twice in the document: the list has both spans
C6_Witness ==
    /\ siteInfo # <<>>
    /\ references # <<>>
    /\ siteInfo[1] # Undefined
    /\ references[1] # Undefined
    /\ Cardinality(references[1][1].spans) = 2

\* C10: the first parameter value definition, in declared order, whose raw name
\* span contains the cursor decides the result: a site for it if the template
\* defines its name, absent if not, whatever later definitions contain the cursor.
C10_FirstContainingNameDecides ==
    (siteInfo # <<>> /\ associatedTemplate # Undefined) =>
        \A i \in 1..Len(deploymentParameters) :
            firstContaining(i) =>
                IF templateDefines(i)
                THEN /\ siteInfo[1] # Undefined
                     /\ siteInfo[1][1].unquotedReferenceSpan =
                            deploymentParameters[i].nameValue.unquotedSpan
                ELSE siteInfo[1] = Undefined

\* the first containing name is undefined in the template, a later name also
\* contains the cursor and is defined, and the result is absent
C10_Witness ==
    /\ siteInfo # <<>>
    /\ associatedTemplate # Undefined
    /\ \E i \in 1..Len(deploymentParameters) : \E j \in 1..Len(deploymentParameters) :
          /\ firstContaining(i)
          /\ ~templateDefines(i)
          /\ i < j
          /\ nameContainsCursor(j)
          /\ templateDefines(j)
    /\ siteInfo[1] = Undefined

\* ========================================================================
\* Properties of SnippetManager
\* ========================================================================
CompletedCalls == BagToSet(completed)
AllCalls == BagToSet(awaiting) \cup BagToSet(completed)

isSnippetKey(property) == property.name = <<>> \/ property.name[1] # "$"

\* the keys of the source that carry the tag, in source order
keysTagged(properties, tag) ==
    LET tagged == SelectSeq(properties,
                            LAMBDA p : isSnippetKey(p) /\ p.definition.context = <<tag>>)
    IN  [i \in 1..Len(tagged) |-> tagged[i].name]

\* the keys of the source that are snippets, in source order
snippetKeys(properties) ==
    LET kept == SelectSeq(properties, isSnippetKey)
    IN  [i \in 1..Len(kept) |-> kept[i].name]

\* the snippet names a completed call returned, in order
returnedNames(call) ==
    [i \in 1..Len(call.value) |->
        IF call.kind = "getSnippets" THEN call.value[i].name ELSE call.value[i].snippetName]

\* building the completion items of this call fails on a matching snippet
\* that has no prefix
itemBuildingFails(call) ==
    /\ call.kind = "getSnippetsAsCompletionItems"
    /\ call.addDoubleQuotes
    /\ \E i \in 1..Len(loads[call.load].source.properties) :
          /\ isSnippetKey(loads[call.load].source.properties[i])
          /\ loads[call.load].source.properties[i].definition.context = <<call.context>>
          /\ loads[call.load].source.properties[i].definition.prefix = <<>>

\* what a call must have returned from the load it awaited, when that load succeeded
observesWholeMap(call) ==
    /\ call.status = "returned"
    /\ IF itemBuildingFails(call)
       THEN call.value = <<>>
       ELSE returnedNames(call) = keysTagged(loads[call.load].source.properties, call.context)

\* C3: while no load has failed, all calls share one load: the file is read
\* once and parsed once however the calls interleave with the load, and every
\* completed call has seen the map with every snippet key of the source in it.
C3_SingleFlight ==
    (\A n \in 1..Len(loads) : loads[n].status # "rejected") =>
        /\ Len(loads) = (IF callCount = 0 THEN 0 ELSE 1)
        /\ \A c \in AllCalls : c.load = 1
        /\ \A c \in CompletedCalls :
              /\ loads[1].status = "resolved"
              /\ loads[1].error = "none"
              /\ [i \in 1..Len(loads[1].map) |-> loads[1].map[i].key]
                     = snippetKeys(loads[1].source.properties)
              /\ observesWholeMap(c)

\* two calls share the one load: the second, made while the load of the first
\* was in flight, has resumed and returned snippets of the two-snippet map
\* while the first, which started the load, is still suspended on it
C3_Witness ==
    /\ Len(loads) = 1
    /\ Len(loads[1].map) = 2
    /\ \E c1 \in BagToSet(awaiting) : \E c2 \in CompletedCalls :
          /\ c1.createdLoad
          /\ c1.load = 1
          /\ ~c2.createdLoad
          /\ c2.inFlightAtCall
          /\ c2.load = 1
          /\ Len(c2.value) > 0

\* C4: a failed load is not cached. The cache never holds a rejected promise,
\* a load that resolved read and parsed its file, a call made after the latest
\* load failed starts a new load, and a call whose load succeeded returns that
\* load's snippets even though an earlier load failed.
C4_FailedLoadNotCached ==
    /\ snippetMap # 0 => loads[snippetMap].status # "rejected"
    /\ \A n \in 1..Len(loads) :
          loads[n].status = "resolved" =>
              loads[n].source.readOk /\ loads[n].source.parseOk
    /\ \A c \in AllCalls :
          (/\ c.loadsBefore > 0
           /\ ~c.inFlightAtCall
           /\ loads[c.loadsBefore].status = "rejected")
              => (c.createdLoad /\ c.load = c.loadsBefore + 1)
    /\ \A c \in CompletedCalls :
          loads[c.load].status = "resolved" => observesWholeMap(c)

\* the first load failed, the next getSnippets call started a second load,
\* which succeeded, and the call returned snippets
C4_Witness ==
    \E c \in CompletedCalls :
        /\ c.kind = "getSnippets"
        /\ c.load = 2
        /\ loads[1].status = "rejected"
        /\ loads[2].status = "resolved"
        /\ c.status = "returned"
        /\ Len(c.value) > 0

\* C5: getSnippetsAsCompletionItems never throws: when the load fails or
\* building the items fails it returns the empty list.
C5_CompletionItemsNeverThrow ==
    \A c \in CompletedCalls :
        c.kind = "getSnippetsAsCompletionItems" =>
            /\ c.status = "returned"
            /\ (loads[c.load].status = "rejected" \/ itemBuildingFails(c)) => c.value = <<>>

\* a completion call whose load failed has returned the empty list
C5_Witness ==
    \E c \in CompletedCalls :
        /\ c.kind = "getSnippetsAsCompletionItems"
        /\ loads[c.load].status = "rejected"
        /\ c.status = "returned"
        /\ c.value = <<>>

\* the snippet a source record stands for
snippetOf(property) ==
    [ name        |-> property.name,
      prefix      |-> property.definition.prefix,
      description |-> property.definition.description,
      insertText  |-> join(property.definition.body[1], <<"\n">>),
      context     |-> property.definition.context ]

\* C7: after a successful load getSnippets(tag) returns exactly the records of
\* the source whose key does not begin with '$' and whose context equals the
\* tag, in source order; a tag that no record carries gives the empty list.
C7_GetSnippetsFiltersByTag ==
    \A c \in CompletedCalls :
        (c.kind = "getSnippets" /\ loads[c.load].status = "resolved") =>
            /\ c.status = "returned"
            /\ LET tagged == SelectSeq(loads[c.load].source.properties,
                                       LAMBDA p : /\ isSnippetKey(p)
                                                  /\ p.definition.context = <<c.context>>)
               IN  c.value = [i \in 1..Len(tagged) |-> snippetOf(tagged[i])]

\* from a catalogue of two differently tagged snippets getSnippets('resources')
\* returned the one snippet tagged 'resources'
C7_Witness ==
    \E c \in CompletedCalls :
        /\ c.kind = "getSnippets"
        /\ c.context = "resources"
        /\ loads[c.load].status = "resolved"
        /\ Len(loads[c.load].map) = 2
        /\ \E i \in 1..2 : loads[c.load].map[i].value.context = <<"parameterValues">>
        /\ c.status = "returned"
        /\ Len(c.value) = 1
        /\ c.value[1].context = <<"resources">>

\* the prefix in the source of the snippet an item was made from
prefixOfItem(call, item) ==
    LET properties == loads[call.load].source.properties
        i == CHOOSE k \in 1..Len(properties) : properties[k].name = item.snippetName
    IN  properties[i].definition.prefix

\* C8: every completion item's label is the snippet's prefix, in double quotes
\* exactly when quoteMode is set and the prefix does not start with a double
\* quote, and the item has the low priority and the requested span.
C8_LabelIsPrefix ==
    \A c \in CompletedCalls :
        c.kind = "getSnippetsAsCompletionItems" =>
            \A i \in 1..Len(c.value) :
                LET prefix == prefixOfItem(c, c.value[i])
                IN  prefix # <<>> =>
                      /\ c.value[i].label =
                            (IF c.addDoubleQuotes /\ prefix[1][1] # DQ
                             THEN <<DQ>> \o prefix[1] \o <<DQ>>
                             ELSE prefix[1])
                      /\ c.value[i].priority = "low"
                      /\ c.value[i].span = c.span

\* what the items do carry: the quoted-or-not prefix inside curly braces
C8_LabelIsBracedPrefix ==
    \A c \in CompletedCalls :
        c.kind = "getSnippetsAsCompletionItems" =>
            \A i \in 1..Len(c.value) :
                LET prefix == prefixOfItem(c, c.value[i])
                IN  prefix # <<>> =>
                      /\ c.value[i].label =
                            <<"{">> \o (IF c.addDoubleQuotes /\ prefix[1][1] # DQ
                                        THEN <<DQ>> \o prefix[1] \o <<DQ>>
                                        ELSE prefix[1]) \o <<"}">>
                      /\ c.value[i].priority = "low"
                      /\ c.value[i].span = c.span

\* a record is inconsistent: an apiVersion line without the resources tag, the
\* resources tag without such a line, or no tag
hasApiVersionLine(definition) ==
    \E n \in 1..Len(definition.body[1]) : matchesApiVersion(definition.body[1][n])

inconsistencies(property) ==
    (IF property.definition.context = <<>> THEN {"noContext"} ELSE {})
    \cup (IF property.definition.context = <<"resources">>
              /\ ~hasApiVersionLine(property.definition)
          THEN {"notLikeResource"} ELSE {})
    \cup (IF property.definition.context # <<"resources">>
              /\ hasApiVersionLine(property.definition)
          THEN {"looksLikeResource"} ELSE {})

\* C9: an inconsistent record never aborts the load. No load fails in the
\* conversion; of a loaded file every inconsistency of a snippet record has
\* its warning, the record is in the catalogue, and getSnippets of the
\* record's declared tag returns it.
C9_InconsistencyOnlyWarns ==
    /\ \A n \in 1..Len(loads) : loads[n].error # "convert"
    /\ \A n \in 1..Len(loads) :
          loads[n].status = "resolved" =>
              \A i \in 1..Len(loads[n].source.properties) :
                  LET property == loads[n].source.properties[i]
                  IN  isSnippetKey(property) =>
                        /\ \A kind \in inconsistencies(property) :
                              [snippetName |-> property.name, kind |-> kind] \in warnings
                        /\ \E k \in 1..Len(loads[n].map) :
                              loads[n].map[k].key = property.name
                        /\ \A c \in CompletedCalls :
                              (/\ c.kind = "getSnippets"
                               /\ c.load = n
                               /\ property.definition.context = <<c.context>>)
                                  => \E k \in 1..Len(c.value) : c.value[k].name = property.name

\* a record with an apiVersion line tagged parameterValues was loaded, its
\* warning was shown, and getSnippets('parameterValues') returned it
C9_Witness ==
    \E c \in CompletedCalls :
        /\ c.kind = "getSnippets"
        /\ c.context = "parameterValues"
        /\ loads[c.load].status = "resolved"
        /\ \E i \in 1..Len(loads[c.load].source.properties) :
              LET property == loads[c.load].source.properties[i]
              IN  /\ isSnippetKey(property)
                  /\ "looksLikeResource" \in inconsistencies(property)
                  /\ property.definition.context = <<"parameterValues">>
                  /\ [snippetName |-> property.name, kind |-> "looksLikeResource"] \in warnings
                  /\ \E k \in 1..Len(c.value) : c.value[k].name = property.name

====
